---- MODULE Spec2Model ----
\* A model of menpo/transform/base.py: the composition protocol (Transform,
\* ComposableTransform, TransformChain, VComposableTransform), the apply
\* dispatch on Transformable objects and the Alignable / PureAlignment state
\* machine.
EXTENDS Integers, Sequences, FiniteSets, TLC

\* ---------------------------------------------------------------- bounds

\* Operations (constructor calls included) a run of the program makes.
MaxOps == 4
\* Longest list handed to the TransformChain constructor.
MaxInitChain == 1
\* Alignment operations (constructor calls included) a run makes.
MaxAlignOps == 2
\* Coordinates are integers modulo P; an "array" is one such coordinate.
P == 3

VARIABLES
    heap,   \* the transform objects, by identity: heap[i] is object i
    old,    \* the heap as it was when the last operation was called
    last,   \* the last operation: its name, receiver, argument, outcome, return value
    nops,   \* operations made so far
    app,    \* the last apply / apply_inplace call: its input, its trace, its outcome
    al,     \* the alignment transforms, by identity
    aold,   \* the alignment transforms as they were when the last operation was called
    alast,  \* the last alignment operation
    kw,     \* the keyword options of the last apply call, and those each _apply got
    made    \* the last transform a non-inplace composition returned, as it mapped then

vars == <<heap, old, last, nops, app, al, aold, alast, kw, made>>

\* ------------------------------------------------------- values and classes

\* What Python's None is in a slot that holds an object identity.
None == 0

\* The outcome of a mapping that Python abandons with "maximum recursion depth
\* exceeded": what applying a chain that contains itself ends in.
RecursionError == -1

Arrays == 0 .. (P - 1)

\* The concrete classes of the model. "T" is a plain Transform, "Chain" is
\* TransformChain, "V" and "W" are VComposableTransform subclasses that keep
\* the default _compose_after_inplace; a "V" composes natively with "V", a "W"
\* composes natively with "V" only (its own class is not in the tuple).
LeafClasses == {"T", "V", "W"}
VClasses == {"V", "W"}

\* The parameter vectors a leaf is constructed from: x -> x + 1 and x -> 2 x,
\* two mappings that do not commute.
LeafVecs == {<<1, 1>>, <<2, 0>>}

NoVec == <<0, 0>>

Leaf(c, v) == [cls |-> c, vec |-> v, transforms |-> <<>>]

\* TransformChain.__init__: the list given is stored as the chain's transforms.
TransformChain(ts) == [cls |-> "Chain", vec |-> NoVec, transforms |-> ts]

Ids(h) == 1 .. Len(h)

\* TransformChain.composes_inplace_with: Transform, the class of every object.
Chain_composes_inplace_with == "Transform"

\* composes_inplace_with of the vectorizable classes: "V", for both.
Leaf_composes_inplace_with(c) == "V"

\* self.composes_inplace_with, by the class of self.
composes_inplace_with(c) ==
    IF c = "Chain" THEN Chain_composes_inplace_with
    ELSE Leaf_composes_inplace_with(c)

\* isinstance(transform, self.composes_inplace_with)
isinstance(c, k) == k = "Transform" \/ c = k

Accepts(h, a, b) == isinstance(h[b].cls, composes_inplace_with(h[a].cls))

\* --------------------------------------------------------------- _apply

\* The primitive mapping of a leaf with vector <<m, c>>: x -> m x + c (mod P).
LeafApply(v, x) == (v[1] * x + v[2]) % P

RECURSIVE _apply(_, _, _, _)
RECURSIVE reduce(_, _, _, _)

\* reduce(lambda x_i, tr: tr._apply(x_i), self.transforms, x); an exception
\* raised by an element ends the whole fold.
reduce(h, ts, x, depth) ==
    IF ts = <<>> \/ x = RecursionError THEN x
    ELSE reduce(h, Tail(ts), _apply(h, Head(ts), x, depth), depth)

\* t._apply(x), depth frames below the interpreter's recursion limit.  An
\* acyclic nesting of chains is at most Len(h) deep, so only a chain that
\* reaches itself runs out of frames.
_apply(h, t, x, depth) ==
    IF x = RecursionError THEN RecursionError
    ELSE IF h[t].cls = "Chain"
         THEN IF depth = 0 THEN RecursionError
              ELSE reduce(h, h[t].transforms, x, depth - 1)
         ELSE LeafApply(h[t].vec, x)

\* Transform.apply on a raw array: self._apply(x).
ApplyArray(h, t, x) == _apply(h, t, x, Len(h) + 1)

\* --------------------------------------------------------------- deepcopy

RECURSIVE ReachFrom(_, _)
\* The objects deepcopy visits from the set S: S and all that its chains hold.
ReachFrom(h, S) ==
    LET S2 == S \cup
              UNION {{h[s].transforms[i] : i \in 1 .. Len(h[s].transforms)} : s \in S}
    IN  IF S2 = S THEN S ELSE ReachFrom(h, S2)

\* The identity deepcopy gives the copy of r: the copies follow the heap, in
\* the order of the originals.  The memo keeps sharing and cycles.
CopyId(h, R, r) == Len(h) + Cardinality({s \in R : s <= r})

CopyOf(h, R, r) ==
    [cls |-> h[r].cls, vec |-> h[r].vec,
     transforms |-> [i \in 1 .. Len(h[r].transforms) |->
                        CopyId(h, R, h[r].transforms[i])]]

\* deepcopy(self): the heap with the copies added, and the copy's identity.
deepcopy(h, t) ==
    LET R == ReachFrom(h, {t})
    IN  [heap |-> h \o [k \in 1 .. Cardinality(R) |->
                          CopyOf(h, R, CHOOSE r \in R : CopyId(h, R, r) = Len(h) + k)],
         id |-> CopyId(h, R, t)]

\* ------------------------------------------------ the Vectorizable interface

\* as_vector(): the parameters of a vectorizable transform.
as_vector(o) == o.vec

\* from_vector(vector): a new instance of the receiver's class.
from_vector(c, v) == Leaf(c, v)

\* update_from_vector(vector): the receiver takes the parameters given.
update_from_vector(h, a, v) == [h EXCEPT ![a].vec = v]

\* The vector of "first inner, then outer".
ComposeVec(outer, inner) ==
    <<(outer[1] * inner[1]) % P, (outer[1] * inner[2] + outer[2]) % P>>

\* An outcome of an operation: the heap it leaves, "ok" or the exception it
\* raises, and the value it returns.
Outcome(h, res, ret) == [heap |-> h, res |-> res, ret |-> ret]

\* ------------------------------------------------------------ Transform

\* A compose_before that chains the operands in the order of compose_after.
Transform_compose_before_swapped(h, a, b) ==
    Outcome(Append(h, TransformChain(<<b, a>>)), "ok", Len(h) + 1)

\* Transform.compose_before: TransformChain([self, transform]).
Transform_compose_before(h, a, b) ==
    Outcome(Append(h, TransformChain(<<a, b>>)), "ok", Len(h) + 1)

\* Transform.compose_after: TransformChain([transform, self]).
Transform_compose_after(h, a, b) ==
    Outcome(Append(h, TransformChain(<<b, a>>)), "ok", Len(h) + 1)

\* ------------------------------------- _compose_before_inplace, per class

\* TransformChain._compose_before_inplace: self.transforms.append(transform).
Chain_compose_before_inplace(h, a, b) ==
    [h EXCEPT ![a].transforms = Append(@, b)]

\* A chain whose _compose_after_inplace puts the transform last.
Chain_compose_after_inplace_last(h, a, b) ==
    [h EXCEPT ![a].transforms = Append(@, b)]

\* TransformChain._compose_after_inplace: self.transforms.insert(0, transform).
Chain_compose_after_inplace(h, a, b) ==
    [h EXCEPT ![a].transforms = <<b>> \o @]

\* _compose_before_inplace of a vectorizable leaf: the receiver becomes
\* "first self, then transform".
Leaf_compose_before_inplace(h, a, b) ==
    [h EXCEPT ![a].vec = ComposeVec(h[b].vec, h[a].vec)]

_compose_before_inplace(h, a, b) ==
    IF h[a].cls = "Chain" THEN Chain_compose_before_inplace(h, a, b)
    ELSE Leaf_compose_before_inplace(h, a, b)

\* ------------------------------------------------- ComposableTransform

\* A compose_before_inplace that composes whatever it is given.
compose_before_inplace_unchecked(h, a, b) ==
    Outcome(_compose_before_inplace(h, a, b), "ok", None)

\* ComposableTransform.compose_before_inplace: the ValueError when transform
\* is no instance of composes_inplace_with; nothing is returned.
compose_before_inplace(h, a, b) ==
    IF Accepts(h, a, b)
    THEN Outcome(_compose_before_inplace(h, a, b), "ok", None)
    ELSE Outcome(h, "ValueError", None)

\* VComposableTransform.compose_before_from_vector_inplace:
\* return self.compose_before_inplace(self.from_vector(vector)).  The object
\* built from the vector is a temporary: it leaves the heap with the call.
compose_before_from_vector_inplace(h, a, v) ==
    LET h1 == Append(h, from_vector(h[a].cls, v))
        r  == compose_before_inplace(h1, a, Len(h1))
    IN  Outcome(SubSeq(r.heap, 1, Len(h)), r.res, r.ret)

\* A _compose_after_inplace that composes before instead of after.
VComposable_compose_after_inplace_noswap(h, a, b) ==
    Outcome(_compose_before_inplace(h, a, b), "ok", None)

\* VComposableTransform._compose_after_inplace: the receiver takes the
\* parameters of transform, then composes before its own former vector.
VComposable_compose_after_inplace(h, a, b) ==
    LET self_vector == as_vector(h[a])
        h1 == update_from_vector(h, a, as_vector(h[b]))
    IN  compose_before_from_vector_inplace(h1, a, self_vector)

_compose_after_inplace(h, a, b) ==
    IF h[a].cls = "Chain"
    THEN Outcome(Chain_compose_after_inplace(h, a, b), "ok", None)
    ELSE VComposable_compose_after_inplace(h, a, b)

\* ComposableTransform.compose_after_inplace: nothing is returned; an
\* exception of _compose_after_inplace passes through.
compose_after_inplace(h, a, b) ==
    IF Accepts(h, a, b)
    THEN LET r == _compose_after_inplace(h, a, b)
         IN  Outcome(r.heap, r.res, None)
    ELSE Outcome(h, "ValueError", None)

\* VComposableTransform.compose_after_from_vector_inplace:
\* return self.compose_after_inplace(self.from_vector(vector)).
compose_after_from_vector_inplace(h, a, v) ==
    LET h1 == Append(h, from_vector(h[a].cls, v))
        r  == compose_after_inplace(h1, a, Len(h1))
    IN  Outcome(SubSeq(r.heap, 1, Len(h)), r.res, r.ret)

\* A _compose_before that works on the receiver instead of a copy of it.
_compose_before_nocopy(h, a, b) ==
    Outcome(_compose_before_inplace(h, a, b), "ok", a)

\* ComposableTransform._compose_before: deepcopy, then the in-place operation
\* on the copy.
_compose_before(h, a, b) ==
    LET c == deepcopy(h, a)
    IN  Outcome(_compose_before_inplace(c.heap, c.id, b), "ok", c.id)

\* ComposableTransform._compose_after: deepcopy, then the in-place operation
\* on the copy.  When that raises, the copy was never handed out.
_compose_after(h, a, b) ==
    LET c == deepcopy(h, a)
        r == _compose_after_inplace(c.heap, c.id, b)
    IN  IF r.res = "ok" THEN Outcome(r.heap, "ok", c.id)
        ELSE Outcome(h, r.res, None)

\* ComposableTransform.compose_before.
ComposableTransform_compose_before(h, a, b) ==
    IF Accepts(h, a, b) THEN _compose_before(h, a, b)
    ELSE Transform_compose_before(h, a, b)

\* ComposableTransform.compose_after.
ComposableTransform_compose_after(h, a, b) ==
    IF Accepts(h, a, b) THEN _compose_after(h, a, b)
    ELSE Transform_compose_after(h, a, b)

\* a.compose_before(b), by the class of a.
compose_before(h, a, b) ==
    IF h[a].cls = "T" THEN Transform_compose_before(h, a, b)
    ELSE ComposableTransform_compose_before(h, a, b)

\* a.compose_after(b), by the class of a.
compose_after(h, a, b) ==
    IF h[a].cls = "T" THEN Transform_compose_after(h, a, b)
    ELSE ComposableTransform_compose_after(h, a, b)

\* ------------------------------------------- Transform.apply, apply_inplace

\* What apply and apply_inplace are handed: a raw array, or an object with the
\* Transformable hooks.  hook says how the object's _transform_inplace ends:
\* "ok" (the points are mapped), "AttributeError" (its own code raises one
\* before it maps anything) or "ValueError" (it raises another exception).
Hooks == {"ok", "AttributeError", "ValueError"}

Inputs ==
    [kind : {"array"}, points : Arrays, hook : {"none"}] \cup
    [kind : {"object"}, points : Arrays, hook : Hooks]

\* How self._apply(x) ends on an x that is an object, not an array: the
\* primitive of a concrete transform either rejects it or reads it as an array.
RawOnObject == {"TypeError", "ok"}

\* hasattr(x, "_transform_inplace"): x is Transformable.
HasHook(x) == x.kind = "object"

\* The record of one call: the transform, the input before and after, the
\* exception or "ok", the value returned (the points of the array or object
\* returned, None when nothing is), whether what is returned is a copy of the
\* input, how often the hook ran, whether self._apply got x itself.
ApplyRecord(op, t, x, xafter, res, ret, hookCalls, rawPath) ==
    [op |-> op, t |-> t, x |-> x, xafter |-> xafter, res |-> res, ret |-> ret,
     hookCalls |-> hookCalls, rawPath |-> rawPath]

NoRet == -2

NoApply ==
    ApplyRecord("init", None, [kind |-> "array", points |-> 0, hook |-> "none"],
                [kind |-> "array", points |-> 0, hook |-> "none"], "ok", NoRet, 0, FALSE)

\* The raw-array branch of both methods, the except AttributeError clause:
\* self._apply(x); apply_inplace stores the result in x.
RawPath(op, h, t, x, how) ==
    LET y == ApplyArray(h, t, x.points)
    IN  IF x.kind = "object" /\ how = "TypeError"
        THEN ApplyRecord(op, t, x, x, "TypeError", NoRet, IF HasHook(x) THEN 1 ELSE 0, TRUE)
        ELSE IF op = "apply_inplace"
             THEN ApplyRecord(op, t, x, [x EXCEPT !.points = y], "ok", NoRet,
                              IF HasHook(x) THEN 1 ELSE 0, TRUE)
             ELSE ApplyRecord(op, t, x, x, "ok", y, IF HasHook(x) THEN 1 ELSE 0, TRUE)

\* Transform.apply_inplace: try x._transform_inplace(transform), except
\* AttributeError the raw-array branch.
apply_inplace(h, t, x, how) ==
    IF ~HasHook(x) THEN RawPath("apply_inplace", h, t, x, how)
    ELSE IF x.hook = "ok"
         THEN ApplyRecord("apply_inplace", t, x,
                          [x EXCEPT !.points = ApplyArray(h, t, x.points)],
                          "ok", NoRet, 1, FALSE)
    ELSE IF x.hook = "AttributeError"
         THEN RawPath("apply_inplace", h, t, x, how)
    ELSE ApplyRecord("apply_inplace", t, x, x, x.hook, NoRet, 1, FALSE)

\* Transform.apply: try return x._transform(transform), except AttributeError
\* the raw-array branch.  Transformable._transform works on a deep copy.
apply(h, t, x, how) ==
    IF ~HasHook(x) THEN RawPath("apply", h, t, x, how)
    ELSE IF x.hook = "ok"
         THEN ApplyRecord("apply", t, x, x, "ok", ApplyArray(h, t, x.points), 1, FALSE)
    ELSE IF x.hook = "AttributeError"
         THEN RawPath("apply", h, t, x, how)
    ELSE ApplyRecord("apply", t, x, x, x.hook, NoRet, 1, FALSE)

\* ------------------------------------------------- the keyword options

\* The **kwargs a caller gives to apply or apply_inplace: none, or one option.
NoKwargs == "{}"
Kwargs == {NoKwargs, "{k: 1}"}

RECURSIVE _apply_kwargs(_, _, _, _)
RECURSIVE reduce_kwargs(_, _, _)

\* The calls the fold of TransformChain._apply makes: tr._apply(x_i), each
\* without keyword options.
reduce_kwargs(h, ts, depth) ==
    IF ts = <<>> THEN <<>>
    ELSE _apply_kwargs(h, Head(ts), NoKwargs, depth) \o reduce_kwargs(h, Tail(ts), depth)

\* The _apply calls that reach a leaf when t._apply(x, **kwargs) runs, in
\* order: the leaf and the keyword options it is called with.
_apply_kwargs(h, t, kwargs, depth) ==
    IF h[t].cls = "Chain"
    THEN IF depth = 0 THEN <<>> ELSE reduce_kwargs(h, h[t].transforms, depth - 1)
    ELSE <<[t |-> t, kwargs |-> kwargs]>>

\* The leaf calls of one apply / apply_inplace whose record is r: none when
\* self._apply never ran (the hook raised another exception), the first alone
\* when it rejected the object it was handed, all of them otherwise.
PrimitiveCalls(h, t, kwargs, r) ==
    LET calls == _apply_kwargs(h, t, kwargs, Len(h) + 1)
    IN  IF ~r.rawPath /\ r.res # "ok" THEN <<>>
        ELSE IF r.res = "TypeError" THEN SubSeq(calls, 1, 1)
        ELSE calls

KwCall(given, received) == [given |-> given, received |-> received]

NoKwCall == KwCall(NoKwargs, <<>>)

\* ------------------------------------------------ Alignable, PureAlignment

\* The point clouds handed in as sources and targets: what the code reads of
\* them is n_dims and n_points; pts stands for the coordinates.
PointClouds == [n_dims : {2, 3}, n_points : {4, 5}, pts : {0, 1}]

\* None in a slot that holds a point cloud.
NoCloud == [n_dims |-> 0, n_points |-> 0, pts |-> 0]

\* The parameters an alignment of source to target has.
Fit(source, target) == target.pts - source.pts

\* An alignment transform: "PureAlignment", or "A", a transform class that
\* mixes in Alignable.
AlignObj(c, source, target, param) ==
    [cls |-> c, source |-> source, target |-> target, param |-> param]

AIds(h) == 1 .. Len(h)

\* An outcome of an alignment operation: the objects it leaves, "ok" or the
\* exception, the value returned, whether _align and _target_setter ran.
AOutcome(h, res, ret, alignCalled, setterCalled) ==
    [heap |-> h, res |-> res, ret |-> ret,
     alignCalled |-> alignCalled, setterCalled |-> setterCalled]

\* A check of the dimensionality alone.
_verify_dims_only(source, target) ==
    IF source.n_dims # target.n_dims THEN "ValueError" ELSE "ok"

\* Alignable._verify_source_and_target: True, or the ValueError.
_verify_source_and_target(source, target) ==
    IF source.n_dims # target.n_dims THEN "ValueError"
    ELSE IF source.n_points # target.n_points THEN "ValueError"
    ELSE "ok"

\* Alignable.__init__: both references are None.
Alignable_init(h) ==
    AOutcome(Append(h, AlignObj("A", NoCloud, NoCloud, 0)), "ok", Len(h) + 1, FALSE, FALSE)

\* PureAlignment.__init__: Alignable.__init__, the check, then both stored.
PureAlignment_init(h, source, target) ==
    IF _verify_source_and_target(source, target) = "ok"
    THEN AOutcome(Append(h, AlignObj("PureAlignment", source, target, Fit(source, target))),
                  "ok", Len(h) + 1, FALSE, FALSE)
    ELSE AOutcome(h, "ValueError", None, FALSE, FALSE)

\* PureAlignment.align: cls(source, target).
PureAlignment_align(h, source, target) == PureAlignment_init(h, source, target)

\* _align of a class that mixes in Alignable: the transform fitted to the
\* pair, bound to it.
_align(h, source, target) ==
    AOutcome(Append(h, AlignObj("A", source, target, Fit(source, target))),
             "ok", Len(h) + 1, TRUE, FALSE)

\* Alignable.align: the check, then cls._align.
Alignable_align(h, source, target) ==
    IF _verify_source_and_target(source, target) = "ok"
    THEN _align(h, source, target)
    ELSE AOutcome(h, "ValueError", None, FALSE, FALSE)

\* Alignable.is_alignment_transform.
is_alignment_transform(o) == o.source # NoCloud /\ o.target # NoCloud

\* _target_setter of a concrete class: the parameters are fitted to the new
\* target and the new target is stored.
_target_setter(h, a, new_target) ==
    AOutcome([h EXCEPT ![a].target = new_target,
                       ![a].param = Fit(h[a].source, new_target)],
             "ok", None, FALSE, TRUE)

\* A target setter that checks the dimensionality alone.
target_setter_nopoints(h, a, value) ==
    IF ~is_alignment_transform(h[a])
    THEN AOutcome(h, "NotImplementedError", None, FALSE, FALSE)
    ELSE IF value.n_dims # h[a].target.n_dims
         THEN AOutcome(h, "ValueError", None, FALSE, FALSE)
    ELSE _target_setter(h, a, value)

\* Alignable.target (setter).
target_setter(h, a, value) ==
    IF ~is_alignment_transform(h[a])
    THEN AOutcome(h, "NotImplementedError", None, FALSE, FALSE)
    ELSE IF value.n_dims # h[a].target.n_dims
         THEN AOutcome(h, "ValueError", None, FALSE, FALSE)
    ELSE IF value.n_points # h[a].target.n_points
         THEN AOutcome(h, "ValueError", None, FALSE, FALSE)
    ELSE _target_setter(h, a, value)

\* A from_target that retargets the receiver itself.
from_target_nocopy(h, a, target) ==
    LET r == target_setter(h, a, target)
    IN  AOutcome(r.heap, r.res, IF r.res = "ok" THEN a ELSE None, FALSE, r.setterCalled)

\* Alignable.from_target: deepcopy(self), the copy's target is set, the copy
\* is returned.  When the setter raises, the copy was never handed out.
from_target(h, a, target) ==
    LET h1 == Append(h, h[a])
        r  == target_setter(h1, Len(h1), target)
    IN  IF r.res = "ok" THEN AOutcome(r.heap, "ok", Len(h1), FALSE, r.setterCalled)
        ELSE AOutcome(h, r.res, None, FALSE, r.setterCalled)

\* Alignable._sync_target: self.target = self.apply(self.source) on an
\* alignment transform, nothing otherwise.  y is what apply returns.
_sync_target(h, a, y) ==
    IF is_alignment_transform(h[a]) THEN target_setter(h, a, y)
    ELSE AOutcome(h, "ok", None, FALSE, FALSE)

\* What self.apply(self.source) may return: the source's points mapped, as
\* many as they were, in the output dimensionality of the transform.
AppliedSources(o) == {y \in PointClouds : y.n_points = o.source.n_points}

NoAlignCall ==
    [op |-> "init", a |-> None, source |-> NoCloud, target |-> NoCloud,
     res |-> "ok", ret |-> None, alignCalled |-> FALSE, setterCalled |-> FALSE]

\* ---------------------------------------------------------------- actions

\* c = a.compose_before(b) or a.compose_after(b), with what c.apply(x)
\* returns for every array x when c is handed out.
Made(h, c, a, b) ==
    [c |-> c, a |-> a, b |-> b, map |-> [x \in Arrays |-> ApplyArray(h, c, x)]]

NoMade == [c |-> None, a |-> None, b |-> None, map |-> [x \in Arrays |-> x]]

\* One call: the heap it leaves, the heap before it and its record.  The
\* actions test the number of operations first, before they draw the operands.
Call(op, a, b, v, r) ==
    /\ nops < MaxOps
    /\ nops' = nops + 1
    /\ heap' = r.heap
    /\ old' = heap
    /\ last' = [op |-> op, a |-> a, b |-> b, v |-> v, res |-> r.res, ret |-> r.ret]
    /\ made' = IF op \in {"compose_before", "compose_after"} /\ r.res = "ok"
               THEN Made(r.heap, r.ret, a, b)
               ELSE made
    /\ UNCHANGED <<app, al, aold, alast, kw>>

\* A leaf transform is constructed.
NewLeaf ==
    /\ nops < MaxOps
    /\ \E c \in LeafClasses, v \in LeafVecs :
        Call("new", None, None, v, Outcome(Append(heap, Leaf(c, v)), "ok", Len(heap) + 1))

\* TransformChain(transforms) on a new list of transforms at hand.
NewChain ==
    /\ nops < MaxOps
    /\ \E n \in 0 .. MaxInitChain :
        \E ts \in [1 .. n -> Ids(heap)] :
            Call("new", None, None, NoVec,
                 Outcome(Append(heap, TransformChain(ts)), "ok", Len(heap) + 1))

ComposeBefore ==
    /\ nops < MaxOps
    /\ \E a \in Ids(heap), b \in Ids(heap) :
        Call("compose_before", a, b, NoVec, compose_before(heap, a, b))

ComposeAfter ==
    /\ nops < MaxOps
    /\ \E a \in Ids(heap), b \in Ids(heap) :
        Call("compose_after", a, b, NoVec, compose_after(heap, a, b))

ComposeBeforeInplace ==
    /\ nops < MaxOps
    /\ \E a \in Ids(heap), b \in Ids(heap) :
        /\ heap[a].cls # "T"
        /\ Call("compose_before_inplace", a, b, NoVec, compose_before_inplace(heap, a, b))

ComposeAfterInplace ==
    /\ nops < MaxOps
    /\ \E a \in Ids(heap), b \in Ids(heap) :
        /\ heap[a].cls # "T"
        /\ Call("compose_after_inplace", a, b, NoVec, compose_after_inplace(heap, a, b))

ComposeBeforeFromVectorInplace ==
    /\ nops < MaxOps
    /\ \E a \in Ids(heap), v \in LeafVecs :
        /\ heap[a].cls \in VClasses
        /\ Call("compose_before_from_vector_inplace", a, None, v,
                compose_before_from_vector_inplace(heap, a, v))

ComposeAfterFromVectorInplace ==
    /\ nops < MaxOps
    /\ \E a \in Ids(heap), v \in LeafVecs :
        /\ heap[a].cls \in VClasses
        /\ Call("compose_after_from_vector_inplace", a, None, v,
                compose_after_from_vector_inplace(heap, a, v))

NoCall == [op |-> "init", a |-> None, b |-> None, v |-> NoVec,
           res |-> "ok", ret |-> None]

Init ==
    /\ heap = <<>>
    /\ old = <<>>
    /\ last = NoCall
    /\ nops = 0
    /\ app = NoApply
    /\ al = <<>>
    /\ aold = <<>>
    /\ alast = NoAlignCall
    /\ kw = NoKwCall
    /\ made = NoMade

Next ==
    \/ NewLeaf
    \/ NewChain
    \/ ComposeBefore
    \/ ComposeAfter
    \/ ComposeBeforeInplace
    \/ ComposeAfterInplace
    \/ ComposeBeforeFromVectorInplace
    \/ ComposeAfterFromVectorInplace

Spec == Init /\ [][Next]_vars

\* ------------------------------------------------------------ composition

InplaceOps ==
    {"compose_before_inplace", "compose_after_inplace",
     "compose_before_from_vector_inplace", "compose_after_from_vector_inplace"}

\* Every object of the heap before the call but those in S is as it was.
UnchangedBut(S) ==
    /\ Len(old) <= Len(heap)
    /\ \A i \in Ids(old) \ S : heap[i] = old[i]

C2_OperandsUnchanged ==
    last.op \in {"compose_before", "compose_after"} => UnchangedBut({})

\* a.compose_before(b) took the native path on a chain that holds a transform.
C2_Witness ==
    /\ last.op = "compose_before" /\ last.res = "ok"
    /\ old[last.a].cls = "Chain" /\ old[last.a].transforms # <<>>
    /\ heap[last.ret].transforms # old[last.a].transforms

\* C3: after an in-place composition that the receiver accepts, the receiver
\* maps every array as the non-inplace composition of the original receiver
\* with b does, and b, when it is another object, is as it was.
C3_InplaceAsNonInplace ==
    /\ (last.op = "compose_before_inplace" /\ last.res = "ok") =>
          /\ last.b # last.a => heap[last.b] = old[last.b]
          /\ LET c == compose_before(old, last.a, last.b)
             IN  \A x \in Arrays :
                     ApplyArray(heap, last.a, x) = ApplyArray(c.heap, c.ret, x)
    /\ (last.op = "compose_after_inplace" /\ last.res = "ok") =>
          /\ last.b # last.a => heap[last.b] = old[last.b]
          /\ LET c == compose_after(old, last.a, last.b)
             IN  \A x \in Arrays :
                     ApplyArray(heap, last.a, x) = ApplyArray(c.heap, c.ret, x)

\* C4: an in-place composition with a transform that is no instance of
\* composes_inplace_with raises the ValueError, builds no chain and leaves
\* the receiver, like every other object, as it was.
C4_IncompatibleRaises ==
    (/\ last.op \in {"compose_before_inplace", "compose_after_inplace"}
     /\ ~Accepts(old, last.a, last.b)) =>
        /\ last.res = "ValueError"
        /\ heap = old

\* A vectorizable transform was asked to compose in place with a transform
\* of a class it does not accept.
C4_Witness ==
    /\ last.op = "compose_before_inplace"
    /\ old[last.a].cls = "V" /\ old[last.b].cls = "Chain"

C12_ChainGrowsAtEnds ==
    \A i \in Ids(old) :
        old[i].cls = "Chain" =>
            /\ i \in Ids(heap)
            /\ heap[i].cls = "Chain"
            /\ heap[i].transforms =
                  IF last.op = "compose_before_inplace" /\ last.a = i
                  THEN old[i].transforms \o <<last.b>>
                  ELSE IF last.op = "compose_after_inplace" /\ last.a = i
                       THEN <<last.b>> \o old[i].transforms
                       ELSE old[i].transforms

\* compose_after_inplace put a transform in front of the elements of a chain
\* that did not hold it.
C12_Witness ==
    /\ last.op = "compose_after_inplace" /\ last.res = "ok"
    /\ old[last.a].cls = "Chain"
    /\ old[last.a].transforms # <<>>
    /\ \A k \in 1 .. Len(old[last.a].transforms) : old[last.a].transforms[k] # last.b
    /\ Len(heap[last.a].transforms) = Len(old[last.a].transforms) + 1

\* C13: once c = a.compose_before(b) or a.compose_after(b) is returned, an
\* in-place composition on a or on b does not change what c.apply(x) returns.
C13_ResultSharesNothing ==
    (/\ last.op \in InplaceOps
     /\ made.c # None
     /\ last.a \in {made.a, made.b}) =>
        \A x \in Arrays : ApplyArray(heap, made.c, x) = made.map[x]

\* Chain i is among the transforms reached from its own elements.
ContainsItself(h, i) ==
    i \in ReachFrom(h, {h[i].transforms[k] : k \in 1 .. Len(h[i].transforms)})

\* C14: no chain made by the constructor and the composition calls contains
\* itself, directly or through the chains it holds, and applying any chain to
\* an array ends with an array.
C14_NoChainContainsItself ==
    \A i \in Ids(heap) :
        heap[i].cls = "Chain" =>
            /\ ~ContainsItself(heap, i)
            /\ \A x \in Arrays : ApplyArray(heap, i, x) \in Arrays

\* C15: when compose_after_inplace or compose_after_from_vector_inplace of a
\* VComposableTransform ends with the ValueError, the receiver has the
\* parameter vector it had before the call.
C15_ErrorKeepsVector ==
    (/\ last.op \in {"compose_after_inplace", "compose_after_from_vector_inplace"}
     /\ old[last.a].cls \in VClasses
     /\ last.res = "ValueError") =>
        as_vector(heap[last.a]) = as_vector(old[last.a])

\* C10: the four in-place compositions return the receiver when they succeed.
C10_InplaceReturnsSelf ==
    (last.op \in InplaceOps /\ last.res = "ok") => last.ret = last.a

\* ------------------------------------------------- apply on constructed heaps

\* The transforms the apply calls are made on: two leaves and the chain of them.
ApplyHeaps ==
    {<<Leaf(c1, v1), Leaf(c2, v2), TransformChain(<<1, 2>>)>> :
        c1 \in {"T", "V"}, c2 \in {"T"}, v1 \in LeafVecs, v2 \in LeafVecs}

InitApply ==
    /\ heap \in ApplyHeaps
    /\ old = <<>>
    /\ last = NoCall
    /\ nops = 0
    /\ app = NoApply
    /\ al = <<>>
    /\ aold = <<>>
    /\ alast = NoAlignCall
    /\ kw = NoKwCall
    /\ made = NoMade

Apply ==
    \E t \in Ids(heap), x \in Inputs, how \in RawOnObject, kwargs \in Kwargs :
        /\ app' = apply(heap, t, x, how)
        /\ kw' = KwCall(kwargs, PrimitiveCalls(heap, t, kwargs, apply(heap, t, x, how)))
        /\ UNCHANGED <<heap, old, last, nops, al, aold, alast, made>>

ApplyInplace ==
    \E t \in Ids(heap), x \in Inputs, how \in RawOnObject, kwargs \in Kwargs :
        /\ app' = apply_inplace(heap, t, x, how)
        /\ kw' = KwCall(kwargs, PrimitiveCalls(heap, t, kwargs, apply_inplace(heap, t, x, how)))
        /\ UNCHANGED <<heap, old, last, nops, al, aold, alast, made>>

NextApply ==
    \/ Apply
    \/ ApplyInplace

SpecApply == InitApply /\ [][NextApply]_vars

\* C9: apply and apply_inplace hand x itself to self._apply exactly when x
\* has no Transformable hook; on an x that has it the hook runs once, the raw
\* branch is not taken, and an exception the hook raises is what the caller
\* gets.
C9_HookOrRawArray ==
    app.op \in {"apply", "apply_inplace"} =>
        /\ app.rawPath <=> ~HasHook(app.x)
        /\ HasHook(app.x) =>
              /\ app.hookCalls = 1
              /\ app.x.hook # "ok" => app.res = app.x.hook

\* C11: every _apply that maps the points in an apply or apply_inplace call
\* is given the keyword options the caller gave, the elements of a
\* TransformChain included.
C11_KwargsReachElements ==
    app.op \in {"apply", "apply_inplace"} =>
        \A i \in 1 .. Len(kw.received) : kw.received[i].kwargs = kw.given

\* ------------------------------------------------------ alignment actions

ACall(op, a, source, target, r) ==
    /\ nops < MaxAlignOps
    /\ nops' = nops + 1
    /\ al' = r.heap
    /\ aold' = al
    /\ alast' = [op |-> op, a |-> a, source |-> source, target |-> target,
                 res |-> r.res, ret |-> r.ret,
                 alignCalled |-> r.alignCalled, setterCalled |-> r.setterCalled]
    /\ UNCHANGED <<heap, old, last, app, kw, made>>

\* The regular constructor of a class that mixes in Alignable.
NewUnbound ==
    ACall("Alignable", None, NoCloud, NoCloud, Alignable_init(al))

NewPureAlignment ==
    \E source \in PointClouds, target \in PointClouds :
        ACall("PureAlignment", None, source, target, PureAlignment_init(al, source, target))

AlignPure ==
    \E source \in PointClouds, target \in PointClouds :
        ACall("PureAlignment.align", None, source, target,
              PureAlignment_align(al, source, target))

Align ==
    \E source \in PointClouds, target \in PointClouds :
        ACall("align", None, source, target, Alignable_align(al, source, target))

SetTarget ==
    \E a \in AIds(al), value \in PointClouds :
        ACall("target", a, NoCloud, value, target_setter(al, a, value))

FromTarget ==
    \E a \in AIds(al), target \in PointClouds :
        ACall("from_target", a, NoCloud, target, from_target(al, a, target))

SyncTarget ==
    \E a \in AIds(al) :
        \/ /\ is_alignment_transform(al[a])
           /\ \E y \in AppliedSources(al[a]) :
                  ACall("_sync_target", a, NoCloud, y, _sync_target(al, a, y))
        \/ /\ ~is_alignment_transform(al[a])
           /\ ACall("_sync_target", a, NoCloud, NoCloud, _sync_target(al, a, NoCloud))

InitAlign ==
    /\ heap = <<>>
    /\ old = <<>>
    /\ last = NoCall
    /\ nops = 0
    /\ app = NoApply
    /\ al = <<>>
    /\ aold = <<>>
    /\ alast = NoAlignCall
    /\ kw = NoKwCall
    /\ made = NoMade

NextAlign ==
    \/ NewUnbound
    \/ NewPureAlignment
    \/ AlignPure
    \/ Align
    \/ SetTarget
    \/ FromTarget
    \/ SyncTarget

SpecAlign == InitAlign /\ [][NextAlign]_vars

Compatible(s, t) == s.n_dims = t.n_dims /\ s.n_points = t.n_points

\* C5: what align and the PureAlignment constructor return is bound; a bound
\* transform stays bound through target assignments, from_target and
\* _sync_target, with source and target of equal n_dims and n_points; no
\* PureAlignment has one of the two alone.
C5_BoundAndCompatible ==
    /\ (alast.op \in {"align", "PureAlignment.align", "PureAlignment"} /\ alast.res = "ok") =>
          /\ alast.ret \in AIds(al)
          /\ is_alignment_transform(al[alast.ret])
    /\ \A i \in AIds(al) :
          /\ is_alignment_transform(al[i]) => Compatible(al[i].source, al[i].target)
          /\ al[i].cls = "PureAlignment" => is_alignment_transform(al[i])
          /\ (al[i].source = NoCloud) <=> (al[i].target = NoCloud)
    /\ \A i \in AIds(aold) :
          /\ i \in AIds(al)
          /\ is_alignment_transform(aold[i]) => is_alignment_transform(al[i])

\* A bound transform took a new target of other coordinates.
C5_Witness ==
    /\ alast.op = "target" /\ alast.res = "ok"
    /\ is_alignment_transform(al[alast.a])
    /\ al[alast.a].target # aold[alast.a].target

\* C6: align (and the PureAlignment constructor behind it) on a source and
\* a target that differ in n_dims or n_points raises the ValueError, runs no
\* _align and returns nothing; the target
\* setter of a bound transform, given a value that differs from the target in
\* n_dims or n_points, raises the ValueError, runs no _target_setter and
\* leaves source and target as they were.
C6_ValidationRejects ==
    /\ (/\ alast.op \in {"align", "PureAlignment.align", "PureAlignment"}
        /\ ~Compatible(alast.source, alast.target)) =>
          /\ alast.res = "ValueError"
          /\ ~alast.alignCalled
          /\ alast.ret = None
          /\ al = aold
    /\ (/\ alast.op = "target"
        /\ is_alignment_transform(aold[alast.a])
        /\ ~Compatible(alast.target, aold[alast.a].target)) =>
          /\ alast.res = "ValueError"
          /\ ~alast.setterCalled
          /\ al = aold

\* The target setter of a bound transform was given a target of the same
\* dimensionality with another number of points.
C6_Witness ==
    /\ alast.op = "target"
    /\ is_alignment_transform(aold[alast.a])
    /\ alast.target.n_dims = aold[alast.a].target.n_dims
    /\ alast.target.n_points # aold[alast.a].target.n_points

\* C7: from_target(new_target) on a bound transform, new_target compatible,
\* returns an object that was not there before, with the receiver's source
\* and new_target as target, and leaves the receiver as it was; otherwise it
\* raises the setter's exception and nothing has changed.
C7_FromTarget ==
    alast.op = "from_target" =>
        IF /\ is_alignment_transform(aold[alast.a])
           /\ Compatible(alast.target, aold[alast.a].target)
        THEN /\ alast.res = "ok"
             /\ alast.ret \in AIds(al) \ AIds(aold)
             /\ al[alast.ret].source = aold[alast.a].source
             /\ al[alast.ret].target = alast.target
             /\ al[alast.ret].cls = aold[alast.a].cls
             /\ \A i \in AIds(aold) : al[i] = aold[i]
        ELSE /\ alast.res \in {"ValueError", "NotImplementedError"}
             /\ alast.ret = None
             /\ al = aold

\* from_target returned a transform whose target differs from the receiver's.
C7_Witness ==
    /\ alast.op = "from_target" /\ alast.res = "ok"
    /\ al[alast.ret].target # al[alast.a].target
    /\ al[alast.ret].param # al[alast.a].param

====
